---- MODULE Spec2Model ----
(***************************************************************************)
(* Model of the equivalent-flip crate (src/src/lib.rs): the Equivalent and *)
(* Comparable traits with their blanket implementations over Borrow + Eq   *)
(* and Borrow + Ord, and ComparableRangeBounds::compare_contains.          *)
(*                                                                         *)
(* The crate is a set of pure functions.  The state is one call on it:     *)
(* which operation (op), its arguments (args), whether it has returned     *)
(* (pc) and what it returned (ret).  The initial states are the calls the  *)
(* types allow, within the bounds; each action applies one operation.      *)
(*                                                                         *)
(* Values.  A value is a record [ty, n, s]: ty is its Rust type, n the     *)
(* integer payload (i32, and the user key type Custom), s the text         *)
(* payload as a sequence of bytes (str and String).  String borrows as     *)
(* str; every type borrows as itself.                                      *)
(***************************************************************************)
EXTENDS Integers, Sequences, FiniteSets, TLC

VARIABLES pc, op, args, ret

vars == <<pc, op, args, ret>>

(* ---------------------------------------------------------------- bounds *)

MaxInt == 8

MaxLen == 2

\* The user key type Custom and the i32 queries it is compared with: 0..MaxCustom
MaxCustom == 2

\* The bytes texts are made of.
Chars == {1, 2}

\* i32::MAX and i32::MIN, the extreme values of the integer item type.
I32Max == (1073741824 - 1) + 1073741824

I32Min == (-I32Max) - 1

(* ---------------------------------------------------------------- values *)

\* core::cmp::Ordering
Less == "Less"

Equal == "Equal"

Greater == "Greater"

Ordering == {Less, Equal, Greater}

IntVals == (0..MaxInt) \cup {I32Min, I32Max}

Texts == UNION {[1..l -> Chars] : l \in 0..MaxLen}

I32(n) == [ty |-> "i32", n |-> n, s |-> <<>>]

Str(s) == [ty |-> "str", n |-> 0, s |-> s]

String(s) == [ty |-> "String", n |-> 0, s |-> s]

Custom(n) == [ty |-> "Custom", n |-> n, s |-> <<>>]

I32s == {I32(n) : n \in IntVals}

Strs == {Str(s) : s \in Texts}

Strings == {String(s) : s \in Texts}

Customs == {Custom(n) : n \in 0..MaxCustom}

\* The i32 values a Custom key is compared with.
CustomQs == {I32(n) : n \in 0..MaxCustom}

\* The values of one type.
ValuesOf(ty) ==
  CASE ty = "i32" -> I32s
    [] ty = "str" -> Strs
    [] ty = "String" -> Strings
    [] ty = "Custom" -> Customs

\* The types with a native total order that serve as query type Q.
QTypes == {"i32", "str", "String"}

\* K: Borrow<Q> holds: every T borrows as T, and String borrows as str.
Borrows(kty, qty) == kty = qty \/ (kty = "String" /\ qty = "str")

\* The stored-key values that can be viewed as a Q.
KeysFor(qty) == UNION {ValuesOf(kty) : kty \in {t \in QTypes : Borrows(t, qty)}}

\* Borrow::borrow: view the stored key as a Q.
borrow(k, qty) ==
  IF k.ty = qty THEN k ELSE Str(k.s)

(* ------------------------------------------ native equality and ordering *)

\* Ord::cmp for i32
cmp_i32(a, b) ==
  IF a < b THEN Less ELSE IF a = b THEN Equal ELSE Greater

\* Ord::cmp for str: lexicographic over the bytes
RECURSIVE cmp_bytes(_, _)
cmp_bytes(a, b) ==
  IF a = <<>> /\ b = <<>> THEN Equal
  ELSE IF a = <<>> THEN Less
  ELSE IF b = <<>> THEN Greater
  ELSE IF Head(a) # Head(b) THEN cmp_i32(Head(a), Head(b))
  ELSE cmp_bytes(Tail(a), Tail(b))

\* Ord::cmp of the query type Q, on two values of that type
Ord_cmp(a, b) ==
  IF a.ty = "i32" THEN cmp_i32(a.n, b.n) ELSE cmp_bytes(a.s, b.s)

\* PartialEq::eq of the query type Q, on two values of that type
PartialEq_eq(a, b) ==
  IF a.ty = "i32" THEN a.n = b.n
  ELSE Len(a.s) = Len(b.s) /\ \A i \in 1..Len(a.s) : a.s[i] = b.s[i]

(* ------------------------------------------------- blanket implementations *)

\* Mutant of equivalent: the stored key is compared as it is, not viewed as
\* a Q, so a key of another type than Q is never equal to the query.
equivalent_unborrowed(self, key) ==
  self.ty = key.ty /\ PartialEq_eq(self, key)

\* impl<K, Q> Equivalent<Q> for K where K: Borrow<Q>, Q: Eq
equivalent(self, key) ==
  PartialEq_eq(borrow(self, key.ty), key)

\* Mutant of compare: the operands are swapped, the query on the left.
compare_swapped(self, key) ==
  Ord_cmp(key, borrow(self, key.ty))

\* Mutant of compare: only equality is decided, every unequal pair is Less.
compare_equal_or_less(self, key) ==
  IF PartialEq_eq(borrow(self, key.ty), key) THEN Equal ELSE Less

\* impl<K, Q> Comparable<Q> for K where K: Borrow<Q>, Q: Ord
compare(self, key) ==
  Ord_cmp(borrow(self, key.ty), key)

(* ----------------------------------------------------------------- ranges *)

Unbounded == [kind |-> "Unbounded"]

Included(v) == [kind |-> "Included", v |-> v]

Excluded(v) == [kind |-> "Excluded", v |-> v]

\* core::ops::Bound<&Q> over the values of one query type
Bounds(qty) ==
  {Unbounded} \cup {Included(v) : v \in ValuesOf(qty)}
              \cup {Excluded(v) : v \in ValuesOf(qty)}

\* A RangeBounds<Q> value: what start_bound() and end_bound() return.
Ranges(qty) == [start : Bounds(qty), end : Bounds(qty)]

\* The values the bounds of a range carry.
BoundVals(range) ==
  {b.v : b \in {x \in {range.start, range.end} : x.kind # "Unbounded"}}

\* The Comparable<Q> implementation of the item's type, as the table of what
\* item.compare(q) returns for the q's compare_contains can pass to it.
\* The blanket implementation:
BlanketComparable(item, range) ==
  [q \in BoundVals(range) |-> compare(item, q)]

\* A user's implementation of Comparable<i32> for their own key type Custom:
\* for one item, any function of the query.
CustomComparables ==
  [CustomQs -> Ordering]

\* The bounds and ranges over the i32 values a Custom key is compared with.
CustomBounds ==
  {Unbounded} \cup {Included(v) : v \in CustomQs} \cup {Excluded(v) : v \in CustomQs}

CustomRanges == [start : CustomBounds, end : CustomBounds]

\* Mutant of compare_contains: an Included end bound is tested like an
\* Excluded one.
compare_contains_end_strict(range, item, item_compare) ==
  (CASE range.start.kind = "Included" -> item_compare[range.start.v] # Less
     [] range.start.kind = "Excluded" -> item_compare[range.start.v] = Greater
     [] range.start.kind = "Unbounded" -> TRUE)
  /\
  (CASE range.end.kind = "Included" -> item_compare[range.end.v] = Less
     [] range.end.kind = "Excluded" -> item_compare[range.end.v] = Less
     [] range.end.kind = "Unbounded" -> TRUE)

\* Mutant of compare_contains: an Excluded end bound is tested like an
\* Included one.
compare_contains_end_lax(range, item, item_compare) ==
  (CASE range.start.kind = "Included" -> item_compare[range.start.v] # Less
     [] range.start.kind = "Excluded" -> item_compare[range.start.v] = Greater
     [] range.start.kind = "Unbounded" -> TRUE)
  /\
  (CASE range.end.kind = "Included" -> item_compare[range.end.v] # Greater
     [] range.end.kind = "Excluded" -> item_compare[range.end.v] # Greater
     [] range.end.kind = "Unbounded" -> TRUE)

\* Mutant of compare_contains: the two conditions are joined by || .
compare_contains_or(range, item, item_compare) ==
  (CASE range.start.kind = "Included" -> item_compare[range.start.v] # Less
     [] range.start.kind = "Excluded" -> item_compare[range.start.v] = Greater
     [] range.start.kind = "Unbounded" -> TRUE)
  \/
  (CASE range.end.kind = "Included" -> item_compare[range.end.v] # Greater
     [] range.end.kind = "Excluded" -> item_compare[range.end.v] = Less
     [] range.end.kind = "Unbounded" -> TRUE)

\* Mutant of compare_contains: a range without an end bound contains nothing.
compare_contains_no_end(range, item, item_compare) ==
  (CASE range.start.kind = "Included" -> item_compare[range.start.v] # Less
     [] range.start.kind = "Excluded" -> item_compare[range.start.v] = Greater
     [] range.start.kind = "Unbounded" -> TRUE)
  /\
  (CASE range.end.kind = "Included" -> item_compare[range.end.v] # Greater
     [] range.end.kind = "Excluded" -> item_compare[range.end.v] = Less
     [] range.end.kind = "Unbounded" -> FALSE)

\* ComparableRangeBounds::compare_contains; item_compare[q] is item.compare(q)
compare_contains(range, item, item_compare) ==
  (CASE range.start.kind = "Included" -> item_compare[range.start.v] # Less
     [] range.start.kind = "Excluded" -> item_compare[range.start.v] = Greater
     [] range.start.kind = "Unbounded" -> TRUE)
  /\
  (CASE range.end.kind = "Included" -> item_compare[range.end.v] # Greater
     [] range.end.kind = "Excluded" -> item_compare[range.end.v] = Less
     [] range.end.kind = "Unbounded" -> TRUE)

(* ---------------------------------------------------------------- actions *)

\* The (stored key, query) pairs the blanket implementations accept.
PairArgs ==
  UNION {[k : KeysFor(qty), q : ValuesOf(qty)] : qty \in QTypes}

\* Three values of one natively ordered type.
TripleArgs ==
  UNION {[a : ValuesOf(ty), b : ValuesOf(ty), c : ValuesOf(ty)] : ty \in QTypes}

\* A range over Q and an item whose type has the blanket Comparable<Q>.
ContainsArgs ==
  UNION {[range : Ranges(qty), item : KeysFor(qty)] : qty \in {"i32", "str"}}

\* A range over i32 and an item of a user type with its own Comparable<i32>.
CustomContainsArgs ==
  [range : CustomRanges, item : Customs, item_compare : CustomComparables]

\* One call is about to be made: its operation and arguments are any the
\* types allow.
Init ==
  /\ pc = "call"
  /\ ret = <<>>
  /\ \/ op = "equivalent" /\ args \in PairArgs
     \/ op = "compare" /\ args \in PairArgs
     \/ op = "lookup" /\ args \in PairArgs
     \/ op = "compare3" /\ args \in TripleArgs
     \/ op = "compare_contains" /\ args \in ContainsArgs
     \/ op = "compare_contains_custom" /\ args \in CustomContainsArgs

\* k.equivalent(q) through the blanket implementation
CallEquivalent ==
  /\ pc = "call" /\ op = "equivalent"
  /\ ret' = equivalent(args.k, args.q)
  /\ pc' = "done"
  /\ UNCHANGED <<op, args>>

\* k.compare(q) through the blanket implementation
CallCompare ==
  /\ pc = "call" /\ op = "compare"
  /\ ret' = compare(args.k, args.q)
  /\ pc' = "done"
  /\ UNCHANGED <<op, args>>

\* A lookup through K: Comparable<Q>, whose supertrait is Equivalent<Q>: both
\* methods are called on the same pair.
Lookup ==
  /\ pc = "call" /\ op = "lookup"
  /\ ret' = [eq |-> equivalent(args.k, args.q), ord |-> compare(args.k, args.q)]
  /\ pc' = "done"
  /\ UNCHANGED <<op, args>>

\* The blanket ordering of one type T applied to every ordered pair of three
\* values a, b, c of T.
CompareTriple ==
  /\ pc = "call" /\ op = "compare3"
  /\ ret' = [p \in {args.a, args.b, args.c} \X {args.a, args.b, args.c} |->
               compare(p[1], p[2])]
  /\ pc' = "done"
  /\ UNCHANGED <<op, args>>

\* range.compare_contains(item), the item's type using the blanket Comparable
CallCompareContains ==
  /\ pc = "call" /\ op = "compare_contains"
  /\ ret' = compare_contains(args.range, args.item,
                             BlanketComparable(args.item, args.range))
  /\ pc' = "done"
  /\ UNCHANGED <<op, args>>

\* range.compare_contains(item), the item's type having its own Comparable<i32>
CallCompareContainsCustom ==
  /\ pc = "call" /\ op = "compare_contains_custom"
  /\ ret' = compare_contains(args.range, args.item, args.item_compare)
  /\ pc' = "done"
  /\ UNCHANGED <<op, args>>

Next ==
  \/ CallEquivalent
  \/ CallCompare
  \/ Lookup
  \/ CompareTriple
  \/ CallCompareContains
  \/ CallCompareContainsCustom

Spec == Init /\ [][Next]_vars

(* ----------------------------------------------------------------- claims *)

\* The call `o` has returned.
Done(o) == pc = "done" /\ op = o

\* A compare_contains call, with either kind of Comparable, has returned.
ContainsDone == Done("compare_contains") \/ Done("compare_contains_custom")

\* What item.compare(q) returns in the compare_contains call of this state.
ItemCompare(q) ==
  IF op = "compare_contains" THEN compare(args.item, q) ELSE args.item_compare[q]

\* Text a is strictly before text b in the lexicographic order of the bytes.
LexLess(a, b) ==
  \E i \in 1..Len(b) :
    /\ i <= Len(a) + 1
    /\ \A j \in 1..(i - 1) : a[j] = b[j]
    /\ (i = Len(a) + 1 \/ a[i] < b[i])

\* Value a is strictly before value b of the same type in the native order.
NativeLess(a, b) ==
  IF a.ty = "i32" THEN a.n < b.n ELSE LexLess(a.s, b.s)

\* The native three-way comparison of two values of one type.
NativeCmp(a, b) ==
  IF NativeLess(a, b) THEN Less ELSE IF NativeLess(b, a) THEN Greater ELSE Equal

ClosedRange(lo, hi) == [start |-> Included(I32(lo)), end |-> Included(I32(hi))]

SameValueBounds ==
  /\ args.range.start.kind # "Unbounded"
  /\ args.range.end.kind # "Unbounded"
  /\ args.range.start.v = args.range.end.v

\* C1: compare_contains(range, item) is the AND of the lower-bound condition
\* (Unbounded: true; Included(start): compare(item, start) is not Less;
\* Excluded(start): compare(item, start) is Greater) and the upper-bound
\* condition (Unbounded: true; Included(end): compare(item, end) is not
\* Greater; Excluded(end): compare(item, end) is Less), for all 9 combinations
\* of bound kinds; the closed integer range [3, 7] excludes 2 and 8 and
\* contains 3 and 7.
C1_ContainsIsAndOfBoundConditions ==
  /\ ContainsDone =>
       LET lower == CASE args.range.start.kind = "Unbounded" -> TRUE
                      [] args.range.start.kind = "Included" ->
                           ItemCompare(args.range.start.v) # Less
                      [] args.range.start.kind = "Excluded" ->
                           ItemCompare(args.range.start.v) = Greater
           upper == CASE args.range.end.kind = "Unbounded" -> TRUE
                      [] args.range.end.kind = "Included" ->
                           ItemCompare(args.range.end.v) # Greater
                      [] args.range.end.kind = "Excluded" ->
                           ItemCompare(args.range.end.v) = Less
       IN ret = (lower /\ upper)
  /\ (Done("compare_contains") /\ args.range = ClosedRange(3, 7)) =>
       /\ args.item = I32(2) => ret = FALSE
       /\ args.item = I32(3) => ret = TRUE
       /\ args.item = I32(7) => ret = TRUE
       /\ args.item = I32(8) => ret = FALSE

C1_Witness ==
  /\ Done("compare_contains")
  /\ args.range = ClosedRange(3, 7)
  /\ args.item = I32(7)
  /\ ret = TRUE

\* C2: for every pair (k, q) the blanket implementations handle,
\* compare(k, q) = Equal if and only if equivalent(k, q) = true, also when k
\* is an owned value and q the borrowed view of the same value.
C2_EqualIffEquivalent ==
  Done("lookup") => ((ret.ord = Equal) <=> (ret.eq = TRUE))

C2_Witness ==
  /\ Done("lookup")
  /\ args.k = String(<<1, 2>>)
  /\ args.q = Str(<<1, 2>>)
  /\ ret.ord = Equal
  /\ ret.eq = TRUE

\* C3: the default equivalence is native equality after viewing the stored
\* key as the query type: equivalent(k, q) = (view(k) = q); on one type T,
\* equivalent(a, b) = (a = b), so equivalent(a, a) is true.
C3_EquivalentIsEqualityOfView ==
  Done("equivalent") =>
    /\ ret = (borrow(args.k, args.q.ty) = args.q)
    /\ args.k.ty = args.q.ty => ret = (args.k = args.q)
    /\ args.k = args.q => ret = TRUE

C3_Witness ==
  /\ Done("equivalent")
  /\ args.k = String(<<2, 1>>)
  /\ args.q = Str(<<2, 1>>)
  /\ ret = TRUE

\* C4: the default ordering is the native three-way comparison after viewing
\* the stored key as the query type, the stored key on the left and the query
\* on the right; an owned text key against the borrowed view of the same text
\* is Equal and equivalent.
C4_CompareIsNativeCmpOfView ==
  /\ Done("compare") => ret = NativeCmp(borrow(args.k, args.q.ty), args.q)
  /\ (Done("lookup") /\ args.k.ty = "String" /\ args.q.ty = "str"
        /\ args.k.s = args.q.s) =>
       (ret.ord = Equal /\ ret.eq = TRUE)

C4_Witness ==
  /\ Done("compare")
  /\ args.k = String(<<1>>)
  /\ args.q = Str(<<1, 2>>)
  /\ ret = Less

\* C5: the default ordering over a natively ordered type is a total order: for
\* all a, b, c, compare(a, b) is exactly one of Less, Equal, Greater;
\* compare(a, a) = Equal; compare(a, b) = Less and compare(b, c) = Less imply
\* compare(a, c) = Less; compare(a, b) = Less iff compare(b, a) = Greater.
C5_TotalOrderLaws ==
  Done("compare3") =>
    LET T == {args.a, args.b, args.c} IN
    /\ \A x \in T, y \in T : Cardinality({o \in Ordering : ret[<<x, y>>] = o}) = 1
    /\ \A x \in T : ret[<<x, x>>] = Equal
    /\ \A x \in T, y \in T, z \in T :
         (ret[<<x, y>>] = Less /\ ret[<<y, z>>] = Less) => ret[<<x, z>>] = Less
    /\ \A x \in T, y \in T : (ret[<<x, y>>] = Less) <=> (ret[<<y, x>>] = Greater)

C5_Witness ==
  /\ Done("compare3")
  /\ args.a = Str(<<1>>) /\ args.b = Str(<<1, 2>>) /\ args.c = Str(<<2>>)
  /\ ret[<<args.a, args.b>>] = Less
  /\ ret[<<args.b, args.c>>] = Less
  /\ ret[<<args.a, args.c>>] = Less
  /\ ret[<<args.c, args.a>>] = Greater

\* C6: a range from Excluded(v) to Excluded(v), the same v, contains no item,
\* v included: the range (5, 5) rejects 5 and every other value.
C6_ExcludedSameValueIsEmpty ==
  (ContainsDone /\ SameValueBounds
     /\ args.range.start.kind = "Excluded" /\ args.range.end.kind = "Excluded")
  => ret = FALSE

C6_Witness ==
  /\ Done("compare_contains")
  /\ args.range = [start |-> Excluded(I32(5)), end |-> Excluded(I32(5))]
  /\ args.item = I32(5)
  /\ ret = FALSE

\* C7: a range with mixed bound kinds at the same value contains nothing:
\* compare_contains is false for every item on Included(3)/Excluded(3) and on
\* Excluded(3)/Included(3).
C7_MixedSameValueIsEmpty ==
  (ContainsDone /\ SameValueBounds
     /\ args.range.start.kind # args.range.end.kind)
  => ret = FALSE

C7_Witness ==
  /\ Done("compare_contains")
  /\ args.range = [start |-> Included(I32(3)), end |-> Excluded(I32(3))]
  /\ args.item = I32(3)
  /\ ret = FALSE

\* C8: a range from Included(v) to Included(v), the same v, contains every
\* item that compares Equal to v.
C8_IncludedSameValueContainsEqual ==
  (ContainsDone /\ SameValueBounds
     /\ args.range.start.kind = "Included" /\ args.range.end.kind = "Included"
     /\ ItemCompare(args.range.start.v) = Equal)
  => ret = TRUE

C8_Witness ==
  /\ Done("compare_contains")
  /\ args.range = [start |-> Included(Str(<<1, 2>>)), end |-> Included(Str(<<1, 2>>))]
  /\ args.item = String(<<1, 2>>)
  /\ ret = TRUE

\* C9: a range whose bounds are both Unbounded contains every item, the
\* smallest and largest values of the item type included, whatever the item's
\* compare implementation returns.
C9_UnboundedContainsAll ==
  (ContainsDone /\ args.range.start.kind = "Unbounded"
     /\ args.range.end.kind = "Unbounded")
  => ret = TRUE

C9_Witness ==
  /\ Done("compare_contains")
  /\ args.range = [start |-> Unbounded, end |-> Unbounded]
  /\ args.item = I32(I32Min)
  /\ ret = TRUE

\* C10: under the default total ordering an inverted range is empty: with a
\* start value strictly greater than the end value, and Included or Excluded
\* on each side, compare_contains is false for every item.
C10_InvertedRangeIsEmpty ==
  (Done("compare_contains")
     /\ args.range.start.kind # "Unbounded" /\ args.range.end.kind # "Unbounded"
     /\ NativeLess(args.range.end.v, args.range.start.v))
  => ret = FALSE

C10_Witness ==
  /\ Done("compare_contains")
  /\ args.range = [start |-> Included(I32(7)), end |-> Excluded(I32(3))]
  /\ args.item = I32(5)
  /\ ret = FALSE

====
